---- MODULE Spec2Model ----
(***************************************************************************)
(* Model of the kaputt tag filter: Tagger / TagExpansion / FilterPipeline  *)
(* (src/src/filter.cpp), the rule catalog (src/src/rule.h, rules.h) and    *)
(* the string-set helpers (src/unnamed/part_000), and of re.cpp / menu.cpp  *)
(* (src/unnamed/part_001).                                                 *)
(*                                                                         *)
(* The specifications share the variables:                                 *)
(*   SpecPick  the selection path: pickAnimation over every bounded        *)
(*             pipeline, pool and attacker/victim pair;                    *)
(*   Spec      the configuration path: loadFile on sample documents;       *)
(*   SpecSave  saveFile and loadFile of the file saveFile wrote;           *)
(*   SpecRule  params validation and RuleInfo;                             *)
(*   SpecActor the single-actor rules on pairs of actors;                  *)
(*   SpecHostile isLastHostileInRange over the loaded actors;              *)
(*   SpecTags  joinTags and splitTags on bounded tag sets and texts;       *)
(*   SpecMenu  the Add button and the `from` edits of the expansion table; *)
(*   SpecStatus the status line written and read by two threads.           *)
(***************************************************************************)
EXTENDS Integers, Sequences, FiniteSets, TLC

VARIABLES
    tagger_list,    \* FilterPipeline::tagger_list : sequence of Tagger
    tagexp_list,    \* FilterPipeline::tagexp_list : sequence of TagExpansion
    anim_dict,      \* AnimEntryManager::anim_dict : edid -> original tag set
    disk,           \* the file saveFile wrote, with the pipeline it was written from
    call,           \* the most recent call on the pipeline: arguments, locals, result
    gen,            \* pickAnimation's static random engine: "default" or "seeded"
    rule_info,      \* a RuleInfo object: enabled, need_true, type, comment, params
    status_msg,         \* menu.cpp: the status line of the menu
    status_msg_mutex,   \* menu.cpp: "free" or the thread that holds the mutex
    pc                  \* where the game thread and the menu thread are

\* the variables of the status line
status_vars == <<status_msg, status_msg_mutex, pc>>

vars == <<tagger_list, tagexp_list, anim_dict, disk, call, gen, rule_info, status_vars>>

----------------------------------------------------------------------------
(* Bounds of the model *)

MaxTaggers == 2        \* longest tagger_list
MaxExps == 2           \* longest tagexp_list

Tags == {"a", "b", "x"}
Edids == {"e1", "e2"}
DictOrder == <<"e1", "e2">>     \* iteration order of anim_dict

----------------------------------------------------------------------------
(* Sequence helpers *)

Range(s) == {s[i] : i \in DOMAIN s}

SeqsUpTo(S, n) == UNION {[1..m -> S] : m \in 0..n}

\* a fixed enumeration order of the strings used as tags and table keys
TagOrder == <<"a", "a b", "b", "x">>

\* the strings above that contain the separator joinTags / splitTags use
contains_space(str) == str \in {"a b"}

----------------------------------------------------------------------------
(* TOML values: strings, booleans, arrays, tables; None is an absent node *)

Str(s) == [k |-> "str", s |-> s]
Bool(b) == [k |-> "bool", b |-> b]
Arr(a) == [k |-> "arr", a |-> a]
Tbl(t) == [k |-> "tbl", t |-> t]
None == [k |-> "none"]
EmptyTbl == [key \in {} |-> None]

node(t, key) == IF key \in DOMAIN t THEN t[key] ELSE None
as_string(n) == n.k = "str"
as_boolean(n) == n.k = "bool"
as_array(n) == n.k = "arr"
as_table(n) == n.k = "tbl"

----------------------------------------------------------------------------
(* StrSet helpers *)

mergeStrSet_overwrite(to, from) == from

mergeStrSet(to, from) == to \cup from

strSet2TomlArray(set) ==
    LET in(t) == t \in set
    IN Arr([i \in DOMAIN SelectSeq(TagOrder, in) |-> Str(SelectSeq(TagOrder, in)[i])])

tomlArray2StrSet(arr) == {arr[i].s : i \in {j \in DOMAIN arr : arr[j].k = "str"}}

----------------------------------------------------------------------------
(* Rule catalog *)

RuleNames == {"Unconditional", "Bleedout"}

Actors == [bleedout : BOOLEAN]

isBleedout(actor) == actor.bleedout

getDefaultParams(rule) ==
    IF rule = "Unconditional" THEN [value |-> Bool(TRUE)]
    ELSE [check_attacker |-> Bool(FALSE)]

UnconditionalRule_check_negated(params, attacker, victim) == ~params.value.b

UnconditionalRule_check(params, attacker, victim) == params.value.b

BleedoutRule_check(params, attacker, victim) ==
    isBleedout(IF params.check_attacker.b THEN attacker ELSE victim)

Rule_check(rule, params, attacker, victim) ==
    IF rule = "Unconditional" THEN UnconditionalRule_check(params, attacker, victim)
    ELSE BleedoutRule_check(params, attacker, victim)

BoolStr(b) == IF b THEN "true" ELSE "false"

\* the registry: getRule().find(type) != getRule().end()
registered(type) == type \in RuleNames

\* NLOHMANN_DEFINE_TYPE_NON_INTRUSIVE from_json of a rule's params class: every
\* listed member is read with j.at(member).get_to(...), which throws when the
\* key is missing or the value is no boolean; other keys of j are not looked at
from_json(rule, j) ==
    \A member \in DOMAIN getDefaultParams(rule) :
        member \in DOMAIN j /\ j[member].k = "bool"

\* Rule<ParamsClass>::checkParams: false when the conversion throws
checkParams(rule, params) == from_json(rule, params)

json_null == [k |-> "null"]

NoRuleInfo == [type |-> "none"]

\* RuleInfo::RuleInfo(std::string_view type)
RuleInfo(type) ==
    IF ~registered(type)
    THEN [enabled |-> FALSE, need_true |-> TRUE, type |-> type, comment |-> "",
          params |-> json_null]
    ELSE [enabled |-> TRUE, need_true |-> TRUE, type |-> type, comment |-> "",
          params |-> getDefaultParams(type)]

RuleInfo_check_defaultFalse(info, attacker, victim) ==
    IF ~registered(info.type) THEN "false"
    ELSE BoolStr(Rule_check(info.type, info.params, attacker, victim))

\* RuleInfo::check: getRule().at(type) throws std::out_of_range for a type the
\* registry does not hold
RuleInfo_check(info, attacker, victim) ==
    IF ~registered(info.type) THEN "out_of_range"
    ELSE BoolStr(Rule_check(info.type, info.params, attacker, victim))

----------------------------------------------------------------------------
(* TaggerOutput, Tagger, TagExpansion *)

TaggerOutput(req, ban) == [required_tags |-> req, banned_tags |-> ban]
EmptyOutput == TaggerOutput({}, {})

Tagger(rule, params, comment, et, ef, tt, ft) ==
    [rule |-> rule, params |-> params, comment |-> comment,
     enable_true |-> et, enable_false |-> ef, true_tags |-> tt, false_tags |-> ft]

TagExpansion(from, to) == [from |-> from, to |-> to]

Tagger_evaluate_ignoreFlags(t, attacker, victim) ==
    IF Rule_check(t.rule, t.params, attacker, victim) THEN t.true_tags ELSE t.false_tags

\* one Tagger's contribution to the accumulator
Tagger_evaluate(t, attacker, victim) ==
    LET r == Rule_check(t.rule, t.params, attacker, victim)
    IN IF r /\ t.enable_true THEN t.true_tags
       ELSE IF ~r /\ t.enable_false THEN t.false_tags
       ELSE EmptyOutput

RECURSIVE tagLoop(_, _, _, _, _)
tagLoop(list, i, attacker, victim, acc) ==
    IF i > Len(list) THEN acc
    ELSE LET c == Tagger_evaluate(list[i], attacker, victim)
         IN tagLoop(list, i + 1, attacker, victim,
                    [out |-> TaggerOutput(
                                mergeStrSet(acc.out.required_tags, c.required_tags),
                                mergeStrSet(acc.out.banned_tags, c.banned_tags)),
                     log |-> Append(acc.log, i),
                     contrib |-> Append(acc.contrib, c)])

RECURSIVE tagLoop_lastWins(_, _, _, _, _)
tagLoop_lastWins(list, i, attacker, victim, acc) ==
    IF i > Len(list) THEN acc
    ELSE LET c == Tagger_evaluate(list[i], attacker, victim)
         IN tagLoop_lastWins(list, i + 1, attacker, victim,
                    [out |-> IF c = EmptyOutput THEN acc.out ELSE c,
                     log |-> Append(acc.log, i),
                     contrib |-> Append(acc.contrib, c)])

Tagger_tag_lastWins(list, attacker, victim) ==
    tagLoop_lastWins(list, 1, attacker, victim,
                     [out |-> EmptyOutput, log |-> <<>>, contrib |-> <<>>])

\* Tagger::tag: the accumulated output, the order of evaluation, each contribution
Tagger_tag(list, attacker, victim) ==
    tagLoop(list, 1, attacker, victim,
            [out |-> EmptyOutput, log |-> <<>>, contrib |-> <<>>])

----------------------------------------------------------------------------
(* FilterPipeline::pickAnimation *)

RECURSIVE expLoop(_, _, _)
expLoop(list, orig_tags, exp) ==
    IF list = <<>> THEN exp
    ELSE expLoop(Tail(list), orig_tags,
                 IF Head(list).from \in orig_tags
                 THEN mergeStrSet(exp, Head(list).to) ELSE exp)

RECURSIVE expLoop_cascade(_, _, _)
expLoop_cascade(list, orig_tags, exp) ==
    IF list = <<>> THEN exp
    ELSE expLoop_cascade(Tail(list), orig_tags,
                 IF Head(list).from \in (orig_tags \cup exp)
                 THEN mergeStrSet(exp, Head(list).to) ELSE exp)

RECURSIVE expLoop_firstOnly(_, _, _)
expLoop_firstOnly(list, orig_tags, exp) ==
    IF list = <<>> THEN exp
    ELSE IF Head(list).from \in orig_tags THEN mergeStrSet(exp, Head(list).to)
    ELSE expLoop_firstOnly(Tail(list), orig_tags, exp)

exp_tags_cascade(orig_tags, list) ==
    mergeStrSet(expLoop_cascade(list, orig_tags, {}), orig_tags)

exp_tags_firstOnly(orig_tags, list) ==
    mergeStrSet(expLoop_firstOnly(list, orig_tags, {}), orig_tags)

\* the effective tags of one pool entry
exp_tags(orig_tags, list) ==
    mergeStrSet(expLoop(list, orig_tags, {}), orig_tags)

passesFilter_requireAny(exp, tag_result) ==
    /\ (tag_result.required_tags = {} \/ \E tag \in tag_result.required_tags : tag \in exp)
    /\ \A tag \in tag_result.banned_tags : tag \notin exp

\* std::ranges::all_of(required) && std::ranges::none_of(banned)
passesFilter(exp, tag_result) ==
    /\ \A tag \in tag_result.required_tags : tag \in exp
    /\ \A tag \in tag_result.banned_tags : tag \notin exp

filtered_anims(dict, list, tag_result) ==
    LET keep(edid) == /\ edid \in DOMAIN dict
                      /\ passesFilter(exp_tags(dict[edid], list), tag_result)
    IN SelectSeq(DictOrder, keep)

nullptr == "nullptr"

\* static std::default_random_engine gen, before any seed() call
DefaultEngine == "default"

\* std::once_flag flag: a local of the call, constructed unset on every call
once_flag == FALSE

\* std::call_once(flag, f): f runs when the flag is not yet set
call_once(flag) == ~flag

PickCall(tagged, dict, list, attacker, victim, filtered, result) ==
    [op |-> "pick", attacker |-> attacker, victim |-> victim,
     tag_result |-> tagged.out, eval_log |-> tagged.log, contrib |-> tagged.contrib,
     exp |-> [edid \in DOMAIN dict |-> exp_tags(dict[edid], list)],
     filtered_anims |-> filtered, result |-> result,
     seeded |-> IF filtered = <<>> THEN FALSE ELSE call_once(once_flag)]

NoTagging == [out |-> EmptyOutput, log |-> <<>>, contrib |-> <<>>]

pickAnimation_skipEmptyPool(tl, el, dict, attacker, victim) ==
    IF DOMAIN dict = {}
    THEN {PickCall(NoTagging, dict, el, attacker, victim, <<>>, nullptr)}
    ELSE LET tagged == Tagger_tag(tl, attacker, victim)
             filtered == filtered_anims(dict, el, tagged.out)
         IN IF filtered = <<>>
            THEN {PickCall(tagged, dict, el, attacker, victim, filtered, nullptr)}
            ELSE {PickCall(tagged, dict, el, attacker, victim, filtered, filtered[i]) :
                    i \in 1..Len(filtered)}

pickAnimation_neverFirst(tl, el, dict, attacker, victim) ==
    LET tagged == Tagger_tag(tl, attacker, victim)
        filtered == filtered_anims(dict, el, tagged.out)
    IN IF filtered = <<>>
       THEN {PickCall(tagged, dict, el, attacker, victim, filtered, nullptr)}
       ELSE {PickCall(tagged, dict, el, attacker, victim, filtered, filtered[i]) :
               i \in (IF Len(filtered) = 1 THEN {1} ELSE 2..Len(filtered))}

\* every call record pickAnimation can produce: one per index unif(gen) can draw
pickAnimation(tl, el, dict, attacker, victim) ==
    LET tagged == Tagger_tag(tl, attacker, victim)
        filtered == filtered_anims(dict, el, tagged.out)
    IN IF filtered = <<>>
       THEN {PickCall(tagged, dict, el, attacker, victim, filtered, nullptr)}
       ELSE {PickCall(tagged, dict, el, attacker, victim, filtered, filtered[i]) :
               i \in 1..Len(filtered)}

\* the set `from` after a merge into `to`: the source of a merge is a reference
\* to const
mergeStrSet_from_spliced(to, from) == from \cap to

mergeStrSet_from(to, from) == from

\* the `to` set of expansion i after the loop over the pool: it is the source of
\* one merge for every entry whose original tags hold the expansion's `from`
RECURSIVE to_after(_, _, _, _, _)
to_after(order, dict, list, i, to) ==
    IF order = <<>> THEN to
    ELSE IF Head(order) \in DOMAIN dict /\ list[i].from \in dict[Head(order)]
    THEN to_after(Tail(order), dict, list, i,
                  mergeStrSet_from(expLoop(SubSeq(list, 1, i - 1), dict[Head(order)], {}), to))
    ELSE to_after(Tail(order), dict, list, i, to)

\* tagexp_list after the call
tagexp_list_after(list, dict) ==
    [i \in DOMAIN list |-> [list[i] EXCEPT !.to = to_after(DictOrder, dict, list, i, @)]]

\* anim_dict after the call: every entry's tags are the source of the last merge
anim_dict_after(list, dict) ==
    [edid \in DOMAIN dict |-> mergeStrSet_from(expLoop(list, dict[edid], {}), dict[edid])]

PickAnimation ==
    /\ \E attacker \in Actors, victim \in Actors :
         call' \in pickAnimation(tagger_list, tagexp_list, anim_dict, attacker, victim)
    /\ gen' = IF call'.seeded THEN "seeded" ELSE gen
    /\ tagexp_list' = tagexp_list_after(tagexp_list, anim_dict)
    /\ anim_dict' = anim_dict_after(tagexp_list, anim_dict)
    /\ UNCHANGED <<tagger_list, disk, rule_info, status_vars>>

----------------------------------------------------------------------------
(* The pipelines, pools and actors pickAnimation is checked on *)

NoFile == [doc |-> None]
NoCall == [op |-> "none"]

\* the status line before anything was set: the version banner
VersionBanner == "Kaputt Ver."

\* each thread: where it is (`at`) and the message it is setting (`msg`);
\* `raced` records that a write went on while the menu was reading
Idle(at) == [at |-> at, msg |-> "", raced |-> FALSE]

InitStatus ==
    /\ status_msg = VersionBanner
    /\ status_msg_mutex = "free"
    /\ pc = [game |-> Idle("idle"), menu |-> Idle("draw")]

UncondParams(v) == [value |-> Bool(v)]
SingleActorParams(ca) == [check_attacker |-> Bool(ca)]

PickTaggers ==
    {Tagger("Unconditional", UncondParams(TRUE), "", TRUE, FALSE, o, EmptyOutput) :
        o \in {TaggerOutput({"a"}, {}), TaggerOutput({}, {"a"})}}
    \cup {Tagger("Unconditional", UncondParams(FALSE), "", TRUE, TRUE,
                 TaggerOutput({"a"}, {}), TaggerOutput({"x"}, {"b"}))}
    \cup {Tagger("Unconditional", UncondParams(TRUE), "", FALSE, FALSE,
                 TaggerOutput({"a"}, {"b"}), TaggerOutput({"x"}, {}))}
    \cup {Tagger("Bleedout", SingleActorParams(ca), "", TRUE, ca,
                 TaggerOutput({"b"}, {}), TaggerOutput({"x"}, {"a"})) : ca \in BOOLEAN}

PickExpansions ==
    {TagExpansion("a", {"x"}), TagExpansion("a", {"b"}), TagExpansion("x", {"b"})}

\* the empty pool, a one-entry pool, and two-entry pools around entry {"b"}
Pools ==
    {[edid \in {} |-> {}], [edid \in {"e1"} |-> {"a"}]}
    \cup {[edid \in Edids |-> IF edid = "e1" THEN tags ELSE {"b"}] :
            tags \in {{}, {"a"}, {"x"}, {"a", "b"}}}

InitPick ==
    /\ tagger_list \in SeqsUpTo(PickTaggers, MaxTaggers)
    /\ tagexp_list \in SeqsUpTo(PickExpansions, MaxExps)
    /\ anim_dict \in Pools
    /\ disk = NoFile
    /\ call = NoCall
    /\ gen = DefaultEngine
    /\ rule_info = NoRuleInfo
    /\ InitStatus

NextPick == PickAnimation

SpecPick == InitPick /\ [][NextPick]_vars

----------------------------------------------------------------------------
(* Serialisation: TaggerOutput / Tagger to and from TOML *)

TaggerOutput_toToml(o) ==
    Tbl([req_tags |-> strSet2TomlArray(o.required_tags),
         ban_tags |-> strSet2TomlArray(o.banned_tags)])

Tagger_toToml(t) ==
    Tbl([rule |-> Str(t.rule), params |-> Tbl(t.params), comment |-> Str(t.comment),
         enable_true |-> Bool(t.enable_true), enable_false |-> Bool(t.enable_false),
         true_tags |-> TaggerOutput_toToml(t.true_tags),
         false_tags |-> TaggerOutput_toToml(t.false_tags)])

\* a flat table has the structure of another: same keys, same kind of value per key
isSameStructure(a, b) ==
    /\ DOMAIN a = DOMAIN b
    /\ \A key \in DOMAIN a : a[key].k = b[key].k

checkParamsValidity(rule, p) == isSameStructure(p, getDefaultParams(rule))

\* Rule::getRule: a rule object of the named type for the Tagger to own; a name
\* the registry does not hold fails the lookup the way the registry's at() does,
\* with std::out_of_range
getRule(name) ==
    IF name \in RuleNames THEN [found |-> TRUE, name |-> name, params |-> getDefaultParams(name)]
    ELSE [found |-> FALSE]

\* The guard tests req_tags twice; a table without a ban_tags array passes it and
\* the null array pointer is dereferenced: the process faults.
TaggerOutput_fromToml(tbl) ==
    IF ~(as_array(node(tbl, "req_tags")) /\ as_array(node(tbl, "req_tags")))
    THEN [status |-> "runtime_error"]
    ELSE IF ~as_array(node(tbl, "ban_tags"))
    THEN [status |-> "null_deref"]
    ELSE [status |-> "ok",
          tags |-> TaggerOutput(tomlArray2StrSet(node(tbl, "req_tags").a),
                                tomlArray2StrSet(node(tbl, "ban_tags").a))]

Tagger_fromToml(tbl) ==
    IF ~(/\ as_string(node(tbl, "rule")) /\ as_table(node(tbl, "params"))
         /\ as_string(node(tbl, "comment"))
         /\ as_boolean(node(tbl, "enable_true")) /\ as_boolean(node(tbl, "enable_false"))
         /\ as_table(node(tbl, "true_tags")) /\ as_table(node(tbl, "false_tags")))
    THEN [status |-> "runtime_error"]
    ELSE LET rule == getRule(tbl["rule"].s)
         IN IF ~rule.found THEN [status |-> "out_of_range"]
            ELSE IF ~checkParamsValidity(rule.name, tbl["params"].t)
            THEN [status |-> "runtime_error"]
            ELSE LET tt == TaggerOutput_fromToml(tbl["true_tags"].t)
                     ft == TaggerOutput_fromToml(tbl["false_tags"].t)
                 IN IF tt.status # "ok" THEN [status |-> tt.status]
                    ELSE IF ft.status # "ok" THEN [status |-> ft.status]
                    ELSE [status |-> "ok",
                          tagger |-> Tagger(rule.name, tbl["params"].t, tbl["comment"].s,
                                            tbl["enable_true"].b, tbl["enable_false"].b,
                                            tt.tags, ft.tags)]

----------------------------------------------------------------------------
(* FilterPipeline::loadFile and saveFile *)

ParseError == [k |-> "parse_error"]

clear_keepExpansions(tl, el) == [tagger_list |-> <<>>, tagexp_list |-> el]

\* FilterPipeline::clear
clear(tl, el) == [tagger_list |-> <<>>, tagexp_list |-> <<>>]

\* the `taggers` loop: st = [tagger_list, all_good, crashed, thrown]; the handler
\* catches std::runtime_error only, any other exception leaves the loop
RECURSIVE taggersLoop(_, _, _)
taggersLoop(arr, i, st) ==
    IF i > Len(arr) \/ st.crashed \/ st.thrown THEN st
    ELSE IF as_table(arr[i])
    THEN LET r == Tagger_fromToml(arr[i].t)
         IN IF r.status = "ok"
            THEN taggersLoop(arr, i + 1, [st EXCEPT !.tagger_list = Append(@, r.tagger)])
            ELSE IF r.status = "runtime_error"
            THEN taggersLoop(arr, i + 1, [st EXCEPT !.all_good = FALSE])
            ELSE IF r.status = "out_of_range"
            THEN [st EXCEPT !.thrown = TRUE]
            ELSE [st EXCEPT !.crashed = TRUE]
    ELSE taggersLoop(arr, i + 1, [st EXCEPT !.all_good = FALSE])

\* the keys of a table in the order the table iterates them
tableKeys(t) == LET in(key) == key \in DOMAIN t IN SelectSeq(TagOrder, in)

\* the `tagexps` loop: st = [tagexp_list, all_good]
RECURSIVE tagexpsLoop(_, _, _, _)
tagexpsLoop(t, keys, i, st) ==
    IF i > Len(keys) THEN st
    ELSE IF as_array(t[keys[i]])
    THEN tagexpsLoop(t, keys, i + 1,
            [st EXCEPT !.tagexp_list =
                Append(@, TagExpansion(keys[i], tomlArray2StrSet(t[keys[i]].a)))])
    ELSE tagexpsLoop(t, keys, i + 1, [st EXCEPT !.all_good = FALSE])

loadFile_neverClear(tl, el, doc, append) ==
    LET start == [tagger_list |-> tl, tagexp_list |-> el]
    IN IF doc = ParseError
       THEN [tagger_list |-> start.tagger_list, tagexp_list |-> start.tagexp_list,
             ret |-> "false"]
       ELSE LET a == IF as_array(node(doc, "taggers"))
                     THEN taggersLoop(doc["taggers"].a, 1,
                              [tagger_list |-> start.tagger_list, all_good |-> TRUE,
                               crashed |-> FALSE, thrown |-> FALSE])
                     ELSE [tagger_list |-> start.tagger_list, all_good |-> TRUE,
                           crashed |-> FALSE, thrown |-> FALSE]
                b == IF as_table(node(doc, "tagexps"))
                     THEN tagexpsLoop(doc["tagexps"].t, tableKeys(doc["tagexps"].t), 1,
                              [tagexp_list |-> start.tagexp_list, all_good |-> a.all_good])
                     ELSE [tagexp_list |-> start.tagexp_list, all_good |-> FALSE]
            IN IF a.crashed
               THEN [tagger_list |-> a.tagger_list, tagexp_list |-> start.tagexp_list,
                     ret |-> "crash"]
               ELSE IF a.thrown
               THEN [tagger_list |-> a.tagger_list, tagexp_list |-> start.tagexp_list,
                     ret |-> "out_of_range"]
               ELSE [tagger_list |-> a.tagger_list, tagexp_list |-> b.tagexp_list,
                     ret |-> BoolStr(b.all_good)]

loadFile_requireTagexps(tl, el, doc, append) ==
    LET start == IF ~append THEN clear(tl, el)
                 ELSE [tagger_list |-> tl, tagexp_list |-> el]
        r == loadFile_neverClear(start.tagger_list, start.tagexp_list, doc, append)
    IN IF doc # ParseError /\ ~as_table(node(doc, "tagexps"))
       THEN [tagger_list |-> start.tagger_list, tagexp_list |-> start.tagexp_list,
             ret |-> "false"]
       ELSE r

loadFile_parseThrows(tl, el, doc, append) ==
    LET start == IF ~append THEN clear(tl, el)
                 ELSE [tagger_list |-> tl, tagexp_list |-> el]
    IN IF doc = ParseError
       THEN [tagger_list |-> start.tagger_list, tagexp_list |-> start.tagexp_list,
             ret |-> "parse_error"]
       ELSE loadFile_neverClear(start.tagger_list, start.tagexp_list, doc, append)

loadFile_parseFirst(tl, el, doc, append) ==
    LET start == IF ~append THEN clear(tl, el)
                 ELSE [tagger_list |-> tl, tagexp_list |-> el]
    IN IF doc = ParseError
       THEN [tagger_list |-> tl, tagexp_list |-> el, ret |-> "false"]
       ELSE loadFile_neverClear(start.tagger_list, start.tagexp_list, doc, append)

loadFile_prepend(tl, el, doc, append) ==
    LET r == loadFile_neverClear(<<>>, <<>>, doc, append)
    IN IF append /\ r.ret \in {"true", "false"}
       THEN [r EXCEPT !.tagger_list = @ \o tl, !.tagexp_list = @ \o el]
       ELSE r

\* the pipeline after the call and the value returned ("crash": the call
\* faulted; "out_of_range": that exception left the call)
loadFile(tl, el, doc, append) ==
    LET start == IF ~append THEN clear(tl, el)
                 ELSE [tagger_list |-> tl, tagexp_list |-> el]
    IN IF doc = ParseError
       THEN [tagger_list |-> start.tagger_list, tagexp_list |-> start.tagexp_list,
             ret |-> "false"]
       ELSE LET a == IF as_array(node(doc, "taggers"))
                     THEN taggersLoop(doc["taggers"].a, 1,
                              [tagger_list |-> start.tagger_list, all_good |-> TRUE,
                               crashed |-> FALSE, thrown |-> FALSE])
                     ELSE [tagger_list |-> start.tagger_list, all_good |-> TRUE,
                           crashed |-> FALSE, thrown |-> FALSE]
                b == IF as_table(node(doc, "tagexps"))
                     THEN tagexpsLoop(doc["tagexps"].t, tableKeys(doc["tagexps"].t), 1,
                              [tagexp_list |-> start.tagexp_list, all_good |-> a.all_good])
                     ELSE [tagexp_list |-> start.tagexp_list, all_good |-> FALSE]
            IN IF a.crashed
               THEN [tagger_list |-> a.tagger_list, tagexp_list |-> start.tagexp_list,
                     ret |-> "crash"]
               ELSE IF a.thrown
               THEN [tagger_list |-> a.tagger_list, tagexp_list |-> start.tagexp_list,
                     ret |-> "out_of_range"]
               ELSE [tagger_list |-> a.tagger_list, tagexp_list |-> b.tagexp_list,
                     ret |-> BoolStr(b.all_good)]

\* toml::table::emplace: inserts only when the key is not yet in the table
emplace(t, key, value) == IF key \in DOMAIN t THEN t ELSE t @@ (key :> value)

RECURSIVE tagexp_tbl(_, _, _)
tagexp_tbl(el, i, t) ==
    IF i > Len(el) THEN t
    ELSE tagexp_tbl(el, i + 1, emplace(t, el[i].from, strSet2TomlArray(el[i].to)))

\* the document saveFile writes
saveFile(tl, el) ==
    [taggers |-> Arr([i \in DOMAIN tl |-> Tagger_toToml(tl[i])]),
     tagexps |-> Tbl(tagexp_tbl(el, 1, EmptyTbl))]

----------------------------------------------------------------------------
(* Config documents offered to loadFile *)

FileTaggers ==
    {Tagger("Unconditional", UncondParams(TRUE), "kill", TRUE, FALSE,
            TaggerOutput({"a"}, {}), EmptyOutput),
     Tagger("Unconditional", UncondParams(FALSE), "", TRUE, TRUE,
            TaggerOutput({"a"}, {}), TaggerOutput({"x"}, {"b"})),
     Tagger("Bleedout", SingleActorParams(TRUE), "", FALSE, TRUE,
            TaggerOutput({"b"}, {}), TaggerOutput({}, {"a"}))}

SampleRecord ==
    Tagger_toToml(Tagger("Unconditional", UncondParams(TRUE), "kill", TRUE, FALSE,
                         TaggerOutput({"a"}, {}), EmptyOutput)).t

without(t, key) == [f \in DOMAIN t \ {key} |-> t[f]]

MalformedEntries ==
    {Str("not a table"),
     Tbl(without(SampleRecord, "comment")),
     Tbl([SampleRecord EXCEPT !["rule"] = Str("No Such Rule")]),
     Tbl([SampleRecord EXCEPT !["params"] = Tbl([check_attacker |-> Bool(TRUE)])]),
     Tbl([SampleRecord EXCEPT !["true_tags"] = Tbl(without(@.t, "req_tags"))]),
     Tbl([SampleRecord EXCEPT !["false_tags"] = Tbl(without(@.t, "ban_tags"))])}

GoodA == Tagger_toToml(Tagger("Unconditional", UncondParams(TRUE), "kill", TRUE, FALSE,
                              TaggerOutput({"a"}, {}), EmptyOutput))
GoodB == Tagger_toToml(Tagger("Unconditional", UncondParams(FALSE), "", TRUE, TRUE,
                              TaggerOutput({"a"}, {}), TaggerOutput({"x"}, {"b"})))

\* no field, an empty array, well-formed records, and one malformed record of each
\* kind between two well-formed ones
TaggersFields ==
    {None, Arr(<<>>), Arr(<<GoodA, GoodB>>), Arr(<<GoodB, GoodA>>)}
    \cup {Arr(<<e>>) : e \in {Tagger_toToml(t) : t \in FileTaggers}}
    \cup {Arr(<<GoodA, m, GoodB>>) : m \in MalformedEntries}

ExpA == Tbl("a" :> Arr(<<Str("x")>>))

\* no field, an empty table, one and two keys, a repeated and a non-string array
\* element, a value that is no array, a key and an element with a space in it
TagexpsFields ==
    {None,
     Tbl(EmptyTbl),
     ExpA,
     Tbl("a" :> Arr(<<Str("b"), Bool(TRUE), Str("b")>>)),
     Tbl(("a" :> Arr(<<Str("x")>>)) @@ ("x" :> Arr(<<Str("b")>>))),
     Tbl(("a" :> Str("x")) @@ ("x" :> Arr(<<Str("b")>>))),
     Tbl("a b" :> Arr(<<Str("a b"), Str("x")>>))}

Document(taggers, tagexps) ==
    (IF taggers = None THEN EmptyTbl ELSE "taggers" :> taggers)
    @@ (IF tagexps = None THEN EmptyTbl ELSE "tagexps" :> tagexps)

\* every `taggers` field beside no or one expansion, every `tagexps` field beside
\* no or one tagger, and a file that does not parse
Docs ==
    {ParseError}
    \cup {Document(tf, ef) : tf \in TaggersFields, ef \in {None, ExpA}}
    \cup {Document(tf, ef) : tf \in {None, Arr(<<GoodA>>)}, ef \in TagexpsFields}

\* the presets the save path starts from
SaveDocs ==
    {Document(Arr(<<GoodA>>), ExpA),
     Document(Arr(<<GoodB>>), Tbl("a" :> Arr(<<Str("b")>>))),
     Document(None, Tbl("x" :> Arr(<<Str("b")>>)))}

----------------------------------------------------------------------------
(* The configuration path *)

\* the process has not faulted
Alive == ~(call.op = "load" /\ call.ret = "crash")

\* had: the lengths of the two lists when the call was made
LoadCall(doc, src, append, ret) ==
    [op |-> "load", doc |-> doc, src |-> src, append |-> append, ret |-> ret,
     had |-> <<Len(tagger_list), Len(tagexp_list)>>]

Load(doc, src, append) ==
    \E r \in {loadFile(tagger_list, tagexp_list, doc, append)} :
       /\ Len(r.tagger_list) <= MaxTaggers
       /\ Len(r.tagexp_list) <= MaxExps
       /\ tagger_list' = r.tagger_list
       /\ tagexp_list' = r.tagexp_list
       /\ call' = LoadCall(doc, src, append, r.ret)
       /\ UNCHANGED <<anim_dict, disk, gen, rule_info, status_vars>>

\* loadFile on a document somebody else wrote
LoadFile ==
    /\ Alive
    /\ \E doc \in Docs, append \in BOOLEAN : Load(doc, "preset", append)

Init ==
    /\ tagger_list = <<>>
    /\ tagexp_list = <<>>
    /\ anim_dict = [edid \in {} |-> {}]
    /\ disk = NoFile
    /\ call = NoCall
    /\ gen = DefaultEngine
    /\ rule_info = NoRuleInfo
    /\ InitStatus

Next == LoadFile

Spec == Init /\ [][Next]_vars

----------------------------------------------------------------------------
(* The save path: presets are loaded, the pipeline is saved and loaded back *)

LoadPreset ==
    /\ Alive
    /\ \E doc \in SaveDocs \cup {ParseError}, append \in BOOLEAN :
         Load(doc, "preset", append)

\* loadFile on the file saveFile wrote
LoadSaved ==
    /\ Alive
    /\ disk # NoFile
    /\ \E append \in BOOLEAN : Load(disk.doc, "saved", append)

\* saveFile: the stream opens and the document is written, or it does not open
SaveFile ==
    /\ Alive
    /\ \E is_open \in BOOLEAN :
         /\ disk' = IF is_open THEN [doc |-> saveFile(tagger_list, tagexp_list)] ELSE disk
         /\ call' = [op |-> "save", is_open |-> is_open, ret |-> BoolStr(is_open)]
    /\ UNCHANGED <<tagger_list, tagexp_list, anim_dict, gen, rule_info, status_vars>>

NextSave == LoadPreset \/ SaveFile \/ LoadSaved

SpecSave == Init /\ [][NextSave]_vars

----------------------------------------------------------------------------
(* The rule path: params validation and RuleInfo *)

TypeNames == RuleNames \cup {"No Such Rule"}

ParamKeys == {"value", "check_attacker", "extra"}
ParamValues == {Bool(TRUE), Bool(FALSE), Str("x")}

\* every params object over the keys above
ParamBlobs == UNION {[K -> ParamValues] : K \in SUBSET ParamKeys}

\* RuleBase::checkParams of a registered rule on a params blob
CheckParams ==
    /\ \E rule \in RuleNames, params \in ParamBlobs :
         call' = [op |-> "checkParams", rule |-> rule, params |-> params,
                  ret |-> checkParams(rule, params)]
    /\ UNCHANGED <<tagger_list, tagexp_list, anim_dict, disk, gen, rule_info, status_vars>>

\* construction of a RuleInfo from a type name
NewRuleInfo ==
    /\ \E type \in TypeNames :
         /\ rule_info' = RuleInfo(type)
         /\ call' = [op |-> "RuleInfo", type |-> type]
    /\ UNCHANGED <<tagger_list, tagexp_list, anim_dict, disk, gen, status_vars>>

\* RuleInfo::check on the object
CheckRuleInfo ==
    /\ rule_info # NoRuleInfo
    /\ \E attacker \in Actors, victim \in Actors :
         call' = [op |-> "RuleInfo::check", attacker |-> attacker, victim |-> victim,
                  ret |-> RuleInfo_check(rule_info, attacker, victim)]
    /\ UNCHANGED <<tagger_list, tagexp_list, anim_dict, disk, gen, rule_info, status_vars>>

----------------------------------------------------------------------------
(* Single-actor rules: rule.h (Rule<SingleActorRuleParams>::check) and the  *)
(* rules.h revision (SingleActorRule::operator()).                          *)

SingleActorRuleNames == {"Animation Playable", "Bleedout", "Ragdoll", "Essential"}

\* an actor as the single-actor rules see it
ActorFlags ==
    {"loaded", "dead", "paired", "mounted", "bleedout", "ragdoll", "protected", "essential"}
StandingActor == [f \in ActorFlags |-> f = "loaded"]

\* a loaded, living actor and the actors that differ from it in one flag
ActorStates ==
    {[f \in ActorFlags |-> IF f \in flip THEN ~StandingActor[f] ELSE StandingActor[f]] :
        flip \in {F \in SUBSET ActorFlags : Cardinality(F) <= 1}}

PlayableRule_check(params, attacker, victim) ==
    LET actor == IF params.check_attacker THEN attacker ELSE victim
    IN actor["loaded"] /\ ~actor["dead"] /\ ~actor["paired"] /\ ~actor["mounted"]

SingleActor_BleedoutRule_check(params, attacker, victim) ==
    (IF params.check_attacker THEN attacker ELSE victim)["bleedout"]

RagdollRule_check(params, attacker, victim) ==
    (IF params.check_attacker THEN attacker ELSE victim)["ragdoll"]

EssentialRule_check(params, attacker, victim) ==
    (IF params.check_attacker THEN attacker ELSE victim)["essential"]

\* SingleActorRuleParams: check_attacker, false unless set
SingleActorRuleParams == [check_attacker : BOOLEAN]

\* Rule<SingleActorRuleParams>::check of the named rule (rule.h)
SingleActorRule_check(rule, params, attacker, victim) ==
    CASE rule = "Animation Playable" -> PlayableRule_check(params, attacker, victim)
      [] rule = "Bleedout" -> SingleActor_BleedoutRule_check(params, attacker, victim)
      [] rule = "Ragdoll" -> RagdollRule_check(params, attacker, victim)
      [] rule = "Essential" -> EssentialRule_check(params, attacker, victim)

\* the rules of rules.h that derive from SingleActorRule, and their
\* operator()(actor)
SingleActorRules == {"Bleedout", "Ragdoll", "Protected", "Essential"}

SingleActorRule_actor(rule, actor) ==
    CASE rule = "Bleedout" -> actor["bleedout"]
      [] rule = "Ragdoll" -> actor["ragdoll"]
      [] rule = "Protected" -> actor["protected"]
      [] rule = "Essential" -> actor["essential"]

\* SingleActorRule::operator()(attacker, victim) of rules.h: the conditional
\* expression is evaluated and discarded, and control flows off the end of a
\* function returning bool, so the value the caller reads is any boolean
SingleActorRule_call(rule, params, attacker, victim) ==
    LET discarded == IF params.check_attacker
                     THEN SingleActorRule_actor(rule, attacker)
                     ELSE SingleActorRule_actor(rule, victim)
    IN {ret \in BOOLEAN : discarded \in BOOLEAN}

\* a rule name, its params and a pair of actors, before the rule is checked
SingleActorInputs ==
    [op : {"actors"}, rule : SingleActorRuleNames \cup SingleActorRules,
     params : SingleActorRuleParams, attacker : ActorStates, victim : ActorStates]

\* Rule<SingleActorRuleParams>::check (rule.h) on a pair of actors
CheckSingleActorRule ==
    /\ call.op = "actors"
    /\ call.rule \in SingleActorRuleNames
    /\ call' = [call EXCEPT !.op = "check"] @@
               [ret |-> SingleActorRule_check(call.rule, call.params,
                                               call.attacker, call.victim)]
    /\ UNCHANGED <<tagger_list, tagexp_list, anim_dict, disk, gen, rule_info, status_vars>>

\* SingleActorRule::operator()(attacker, victim) (rules.h) on a pair of actors
CallSingleActorRule ==
    /\ call.op = "actors"
    /\ call.rule \in SingleActorRules
    /\ \E ret \in SingleActorRule_call(call.rule, call.params, call.attacker, call.victim) :
         call' = [call EXCEPT !.op = "operator()"] @@ [ret |-> ret]
    /\ UNCHANGED <<tagger_list, tagexp_list, anim_dict, disk, gen, rule_info, status_vars>>

InitActor ==
    /\ tagger_list = <<>>
    /\ tagexp_list = <<>>
    /\ anim_dict = [edid \in {} |-> {}]
    /\ disk = NoFile
    /\ gen = DefaultEngine
    /\ rule_info = NoRuleInfo
    /\ InitStatus
    /\ call \in SingleActorInputs

NextActor == CheckSingleActorRule \/ CallSingleActorRule

SpecActor == InitActor /\ [][NextActor]_vars

NextRule == CheckParams \/ NewRuleInfo \/ CheckRuleInfo

SpecRule == Init /\ [][NextRule]_vars

----------------------------------------------------------------------------
(* Claims about pickAnimation, checked under SpecPick *)

Picked == call.op = "pick"

\* original tags plus the `to` set of every expansion whose `from` is an original tag
EffectiveTags(orig, list) ==
    orig \cup UNION {list[i].to : i \in {j \in DOMAIN list : list[j].from \in orig}}

Eligible(edid) ==
    LET eff == EffectiveTags(anim_dict[edid], tagexp_list)
    IN /\ call.tag_result.required_tags \subseteq eff
       /\ call.tag_result.banned_tags \cap eff = {}

\* C1: pickAnimation returns null exactly when no pool entry passes the filter;
\* otherwise the returned entry's effective tags (original tags plus expansion
\* results) contain every accumulated required tag and no accumulated banned tag.
C1_PickReturnsEligibleOrNull ==
    Picked =>
        /\ (call.result = nullptr) <=> ~(\E edid \in DOMAIN anim_dict : Eligible(edid))
        /\ call.result # nullptr =>
             /\ call.result \in DOMAIN anim_dict
             /\ Eligible(call.result)

\* an entry whose original tags lack a required tag is returned because an
\* expansion supplies that tag
C1_Witness ==
    /\ Picked
    /\ call.result # nullptr
    /\ \E tag \in call.tag_result.required_tags :
         /\ tag \notin anim_dict[call.result]
         /\ \E i \in DOMAIN tagexp_list :
              tagexp_list[i].from \in anim_dict[call.result] /\ tag \in tagexp_list[i].to

\* C2: the effective tag set pickAnimation computes for an entry with original
\* tags A is A united with the `to` set of every expansion whose `from` is in A,
\* hence a superset of A; expansions sharing one `from` all contribute.
C2_EffectiveTagsAreUnion ==
    Picked =>
        \A edid \in DOMAIN anim_dict :
            /\ call.exp[edid] = EffectiveTags(anim_dict[edid], tagexp_list)
            /\ anim_dict[edid] \subseteq call.exp[edid]

\* two expansions with the same `from` both contributed to one entry
C2_Witness ==
    /\ Picked
    /\ \E edid \in DOMAIN anim_dict : \E i, j \in DOMAIN tagexp_list :
         /\ i # j
         /\ tagexp_list[i].from = tagexp_list[j].from
         /\ tagexp_list[i].to # tagexp_list[j].to
         /\ tagexp_list[i].from \in anim_dict[edid]
         /\ ~(tagexp_list[i].to \subseteq anim_dict[edid])
         /\ ~(tagexp_list[j].to \subseteq anim_dict[edid])
         /\ (tagexp_list[i].to \cup tagexp_list[j].to) \subseteq call.exp[edid]

\* C3: expansion is one level deep: every effective tag that is not an original
\* tag was put there by an expansion whose `from` is an original tag, so a tag
\* added by an expansion never triggers another expansion, in any list order.
C3_ExpansionIsOneLevel ==
    Picked =>
        \A edid \in DOMAIN anim_dict :
            \A tag \in call.exp[edid] \ anim_dict[edid] :
                \E i \in DOMAIN tagexp_list :
                    /\ tagexp_list[i].from \in anim_dict[edid]
                    /\ tag \in tagexp_list[i].to

\* a chain a -> x, x -> b listed in firing order, on an entry that has only the
\* first link's source: the second link did not fire
C3_Witness ==
    /\ Picked
    /\ \E edid \in DOMAIN anim_dict : \E i, j \in DOMAIN tagexp_list :
         /\ i < j
         /\ tagexp_list[i].from \in anim_dict[edid]
         /\ tagexp_list[j].from \in tagexp_list[i].to
         /\ tagexp_list[j].from \notin anim_dict[edid]
         /\ tagexp_list[j].from \in call.exp[edid]
         /\ ~(tagexp_list[j].to \subseteq call.exp[edid])

RuleResult(t) == Rule_check(t.rule, t.params, call.attacker, call.victim)

\* C4: a Tagger contributes its true_tags when the rule is true and enable_true
\* is set, its false_tags when the rule is false and enable_false is set, and an
\* empty TaggerOutput otherwise; with both flags off it contributes nothing.
C4_TaggerContribution ==
    Picked =>
        /\ Len(call.contrib) = Len(tagger_list)
        /\ \A i \in DOMAIN tagger_list :
             LET t == tagger_list[i]
             IN /\ (RuleResult(t) /\ t.enable_true) => call.contrib[i] = t.true_tags
                /\ (~RuleResult(t) /\ t.enable_false) => call.contrib[i] = t.false_tags
                /\ (RuleResult(t) /\ ~t.enable_true) => call.contrib[i] = EmptyOutput
                /\ (~RuleResult(t) /\ ~t.enable_false) => call.contrib[i] = EmptyOutput
                /\ (~t.enable_true /\ ~t.enable_false) => call.contrib[i] = EmptyOutput

\* a Tagger with both flags off and non-empty tag sets contributed nothing, next
\* to a Tagger whose rule was false and which contributed its false_tags
C4_Witness ==
    /\ Picked
    /\ \E i, j \in DOMAIN tagger_list :
         /\ ~tagger_list[i].enable_true /\ ~tagger_list[i].enable_false
         /\ tagger_list[i].true_tags # EmptyOutput
         /\ call.contrib[i] = EmptyOutput
         /\ ~RuleResult(tagger_list[j])
         /\ call.contrib[j] = tagger_list[j].false_tags
         /\ call.contrib[j] # EmptyOutput

\* C5: one pickAnimation call evaluates every Tagger of the list exactly once,
\* in stored order, whatever earlier Taggers contributed and also when the pool
\* is empty.
C5_EveryTaggerEvaluatedOnce ==
    Picked => call.eval_log = [i \in 1..Len(tagger_list) |-> i]

\* an empty pool and a list of two Taggers, the first of which already bans
C5_Witness ==
    /\ Picked
    /\ DOMAIN anim_dict = {}
    /\ Len(tagger_list) >= 2
    /\ call.contrib[1] # EmptyOutput
    /\ call.eval_log = <<1, 2>> \o [i \in 1..(Len(tagger_list) - 2) |-> i + 2]

IndexPermutations(n) == {f \in [1..n -> 1..n] : \A i, j \in 1..n : f[i] = f[j] => i = j}

\* C6: the accumulated (required, banned) pair is the union of all Tagger
\* contributions, so it is the same for every permutation of the tagger list
\* evaluated on the same attacker and victim.
C6_AccumulationIsOrderIndependent ==
    Picked =>
        /\ call.tag_result.required_tags =
             UNION {call.contrib[i].required_tags : i \in DOMAIN call.contrib}
        /\ call.tag_result.banned_tags =
             UNION {call.contrib[i].banned_tags : i \in DOMAIN call.contrib}
        /\ \A f \in IndexPermutations(Len(tagger_list)) :
             Tagger_tag([i \in 1..Len(tagger_list) |-> tagger_list[f[i]]],
                        call.attacker, call.victim).out = call.tag_result

\* two Taggers with different non-empty contributions, both in the result
C6_Witness ==
    /\ Picked
    /\ Len(tagger_list) >= 2
    /\ call.contrib[1] # EmptyOutput
    /\ call.contrib[2] # EmptyOutput
    /\ call.contrib[1] # call.contrib[2]
    /\ call.contrib[1].required_tags \subseteq call.tag_result.required_tags
    /\ call.contrib[2].banned_tags \subseteq call.tag_result.banned_tags
    /\ call.contrib[2].banned_tags # {}
    /\ call.contrib[1].required_tags # {}

ScenarioPipeline ==
    /\ Len(tagger_list) = 1
    /\ tagger_list[1].rule = "Unconditional"
    /\ tagger_list[1].params.value = Bool(TRUE)
    /\ tagger_list[1].enable_true
    /\ tagexp_list = <<>>

\* C7: with one Tagger bound to Unconditional(value = true), enable_true set and
\* no expansions, pickAnimation returns only entries whose tags contain every
\* tag of true_tags.req_tags and none of true_tags.ban_tags, on every call.
C7_UnconditionalScenario ==
    (Picked /\ ScenarioPipeline /\ call.result # nullptr) =>
        /\ tagger_list[1].true_tags.required_tags \subseteq anim_dict[call.result]
        /\ tagger_list[1].true_tags.banned_tags \cap anim_dict[call.result] = {}

\* Scenario B: ban_tags = {a}, pool e1:{a}, e2:{b}: e2 is returned
C7_Witness ==
    /\ Picked
    /\ ScenarioPipeline
    /\ tagger_list[1].true_tags = TaggerOutput({}, {"a"})
    /\ anim_dict = [edid \in Edids |-> IF edid = "e1" THEN {"a"} ELSE {"b"}]
    /\ call.filtered_anims = <<"e2">>
    /\ call.result = "e2"

----------------------------------------------------------------------------
(* Claims about saveFile and loadFile *)

Loaded == call.op = "load" /\ call.ret \in {"true", "false"}

WellFormed(v) == as_table(v) /\ Tagger_fromToml(v.t).status = "ok"

\* the well-formed tagger records of a document, in file order
ParsedTaggers(doc) ==
    IF doc = ParseError \/ ~as_array(node(doc, "taggers")) THEN <<>>
    ELSE LET good == SelectSeq(doc["taggers"].a, WellFormed)
         IN [i \in DOMAIN good |-> Tagger_fromToml(good[i].t).tagger]

\* the expansions of a document: one per key whose value is an array
ParsedExpansions(doc) ==
    IF doc = ParseError \/ ~as_table(node(doc, "tagexps")) THEN <<>>
    ELSE LET t == doc["tagexps"].t
             isArr(key) == key \in DOMAIN t /\ t[key].k = "arr"
             keys == SelectSeq(TagOrder, isArr)
         IN [i \in DOMAIN keys |->
                TagExpansion(keys[i],
                    {t[keys[i]].a[j].s :
                        j \in {n \in DOMAIN t[keys[i]].a : t[keys[i]].a[n].k = "str"}})]

Pairs(el) == {<<el[i].from, el[i].to>> : i \in DOMAIN el}

\* C8: saveFile followed by loadFile(append = false) of the written file yields
\* the same Tagger list (order, rule names, params, comments, flags, tag sets)
\* and the same from -> to expansion pairs, also for a pipeline that holds
\* several expansions with the same `from`.
C8_SaveLoadRoundTrip ==
    [][(/\ call.op = "save" /\ call.ret = "true"
        /\ call'.op = "load" /\ call'.src = "saved" /\ ~call'.append)
       => (/\ call'.ret = "true"
           /\ tagger_list' = tagger_list
           /\ Pairs(tagexp_list') = Pairs(tagexp_list))]_vars

\* C9: after loadFile(path, append = false) on a parsable file the Tagger list and
\* the expansion list hold exactly what was parsed from that file and nothing
\* that was in the pipeline before the call.
C9_LoadReplaces ==
    (Loaded /\ ~call.append /\ call.doc # ParseError) =>
        /\ tagger_list = ParsedTaggers(call.doc)
        /\ tagexp_list = ParsedExpansions(call.doc)

\* a non-append load on a pipeline that held two taggers and an expansion left
\* one other tagger and no expansion
C9_Witness ==
    /\ Loaded
    /\ ~call.append
    /\ call.doc # ParseError
    /\ call.had = <<2, 1>>
    /\ Len(tagger_list) = 1
    /\ tagexp_list = <<>>

\* C10: after loadFile(path, append = true) the Tagger list is the previous
\* Tagger list followed by the file's well-formed taggers in file order; a
\* tagger identical to an existing one becomes a second list element.
C10_AppendKeepsOrderAndDuplicates ==
    [][(call'.op = "load" /\ call'.ret \in {"true", "false"} /\ call'.append)
       => tagger_list' = tagger_list \o ParsedTaggers(call'.doc)]_vars

\* an append load of a file whose one tagger is identical to the tagger already
\* in the list
C10_Witness ==
    /\ Loaded
    /\ call.append
    /\ call.had[1] = 1
    /\ Len(ParsedTaggers(call.doc)) = 1
    /\ Len(tagger_list) = 2
    /\ tagger_list[1] = tagger_list[2]

Froms(el) == {el[i].from : i \in DOMAIN el}

WithFrom(el, key) == {i \in DOMAIN el : el[i].from = key}

\* C11: after loadFile(path, append = true), for every `from` key present both
\* in the existing expansions and in the file, the pipeline holds only the
\* file's target set for that key: the later expansion overwrites the earlier.
C11_AppendOverwritesExpansion ==
    [][(call'.op = "load" /\ call'.ret \in {"true", "false"} /\ call'.append)
       => \A key \in Froms(tagexp_list) \cap Froms(ParsedExpansions(call'.doc)) :
            /\ Cardinality(WithFrom(tagexp_list', key)) = 1
            /\ \A i \in WithFrom(tagexp_list', key) :
                 \A j \in WithFrom(ParsedExpansions(call'.doc), key) :
                    tagexp_list'[i].to = ParsedExpansions(call'.doc)[j].to]_vars

NoTagexpsTable(doc) == doc # ParseError /\ ~as_table(node(doc, "tagexps"))

\* the last n elements of a sequence
LastN(seq, n) == SubSeq(seq, Len(seq) - n + 1, Len(seq))

\* C12: when the document has no `tagexps` table loadFile returns false, yet
\* every well-formed entry of `taggers` in the document is still added to the
\* Tagger list.
C12_MissingTagexpsStillLoadsTaggers ==
    (Loaded /\ NoTagexpsTable(call.doc)) =>
        /\ call.ret = "false"
        /\ Len(tagger_list) >= Len(ParsedTaggers(call.doc))
        /\ LastN(tagger_list, Len(ParsedTaggers(call.doc))) = ParsedTaggers(call.doc)

\* a document without the `tagexps` key whose two taggers are both well-formed
C12_Witness ==
    /\ Loaded
    /\ call.doc # ParseError
    /\ "tagexps" \notin DOMAIN call.doc
    /\ Len(ParsedTaggers(call.doc)) = 2
    /\ Len(call.doc["taggers"].a) = 2
    /\ call.ret = "false"
    /\ tagger_list = ParsedTaggers(call.doc)

\* a tagger record with every field of the right kind whose rule name the
\* registry does not hold
UnknownRuleEntry(v) ==
    /\ as_table(v)
    /\ as_string(node(v.t, "rule")) /\ as_table(node(v.t, "params"))
    /\ as_string(node(v.t, "comment"))
    /\ as_boolean(node(v.t, "enable_true")) /\ as_boolean(node(v.t, "enable_false"))
    /\ as_table(node(v.t, "true_tags")) /\ as_table(node(v.t, "false_tags"))
    /\ v.t["rule"].s \notin RuleNames

HasUnknownRule(doc) ==
    /\ doc # ParseError
    /\ as_array(node(doc, "taggers"))
    /\ \E i \in DOMAIN doc["taggers"].a : UnknownRuleEntry(doc["taggers"].a[i])

AllEntriesClean(doc) ==
    /\ as_array(node(doc, "taggers")) =>
         \A i \in DOMAIN doc["taggers"].a : WellFormed(doc["taggers"].a[i])
    /\ as_table(node(doc, "tagexps")) =>
         \A key \in DOMAIN doc["tagexps"].t : as_array(doc["tagexps"].t[key])

\* C14: on a parsable document loadFile returns true if and only if every tagger
\* entry and every expansion entry of the document parsed cleanly; an absent
\* `taggers` field and an absent `tagexps` field are both only warnings treated
\* as empty.
C14_TrueIffEveryEntryClean ==
    (Loaded /\ call.doc # ParseError) =>
        (call.ret = "true" <=> AllEntriesClean(call.doc))

\* C15: over any sequence of pickAnimation calls in one process the shared
\* random engine is seeded from the entropy source exactly once: a call made
\* when the engine has already been seeded does not seed it again.
C15_EngineSeededOnce ==
    [][(gen = "seeded" /\ call'.op = "pick") => ~call'.seeded]_vars

\* the results pickAnimation can produce for the arguments of the recorded call
PossibleResults ==
    {r.result : r \in pickAnimation(tagger_list, tagexp_list, anim_dict,
                                    call.attacker, call.victim)}

\* C16: when N >= 1 entries pass the filter the selected index ranges over
\* exactly 0..N-1: the result is one of the surviving candidates and every
\* surviving candidate is a possible result of the call, whatever its tag count
\* or its place in the pool.
C16_EveryCandidateSelectable ==
    (Picked /\ call.filtered_anims # <<>>) =>
        /\ \E i \in 1..Len(call.filtered_anims) : call.result = call.filtered_anims[i]
        /\ PossibleResults = Range(call.filtered_anims)
        /\ \A edid \in DOMAIN anim_dict : Eligible(edid) => edid \in PossibleResults

\* two candidates; the one returned is the first of the pool and has the larger
\* tag set
C16_Witness ==
    /\ Picked
    /\ call.filtered_anims = <<"e1", "e2">>
    /\ call.result = "e1"
    /\ Cardinality(anim_dict["e1"]) > Cardinality(anim_dict["e2"])
    /\ call.tag_result.required_tags # {}

----------------------------------------------------------------------------
(* Claims about params validation and RuleInfo, checked under SpecRule *)

\* same key set, and under every key a value of the same kind
SameShape(p, d) ==
    /\ DOMAIN p = DOMAIN d
    /\ \A key \in DOMAIN d : p[key].k = d[key].k

\* C17: params validation accepts a blob if and only if its key set and value
\* kinds equal those of the rule's default params: a blob with a renamed,
\* removed or added field is rejected, one that differs only in values is
\* accepted.
C17_ValidationIsShapeEquality ==
    call.op = "checkParams" =>
        (call.ret <=> SameShape(call.params, getDefaultParams(call.rule)))

\* C18: RuleInfo::check on a type the registry does not hold throws and returns
\* neither true nor false; a RuleInfo constructed from an unknown type has
\* enabled = false and empty params, one constructed from a known type is
\* enabled and has that rule's default params.
C18_UnknownTypeSurfaces ==
    /\ (call.op = "RuleInfo::check" /\ ~registered(rule_info.type)) =>
           call.ret = "out_of_range"
    /\ (call.op = "RuleInfo::check" /\ registered(rule_info.type)) =>
           call.ret \in {"true", "false"}
    /\ (call.op = "RuleInfo" /\ ~registered(call.type)) =>
           /\ rule_info.type = call.type
           /\ ~rule_info.enabled
           /\ rule_info.params = json_null
    /\ (call.op = "RuleInfo" /\ registered(call.type)) =>
           /\ rule_info.type = call.type
           /\ rule_info.enabled
           /\ rule_info.params = getDefaultParams(call.type)

\* check was called on a RuleInfo of an unknown type
C18_Witness ==
    /\ call.op = "RuleInfo::check"
    /\ rule_info.type = "No Such Rule"
    /\ ~rule_info.enabled
    /\ call.ret = "out_of_range"

----------------------------------------------------------------------------
(* Claims about I/O failures, checked under SpecSave *)

\* C19: file I/O failures are reported as a false return value and never as a
\* crash or an escaping exception: loadFile returns false when the file cannot
\* be read or parsed, saveFile returns false when the file cannot be opened for
\* writing, and saveFile never changes the pipeline.
C19_IoFailureIsFalse ==
    [][/\ (call'.op = "load" /\ call'.doc = ParseError) => call'.ret = "false"
       /\ call'.op = "save" =>
            /\ call'.ret = (IF call'.is_open THEN "true" ELSE "false")
            /\ tagger_list' = tagger_list
            /\ tagexp_list' = tagexp_list
            /\ ~call'.is_open => disk' = disk]_vars

\* saveFile failed to open its file on a pipeline that holds two taggers and
\* two expansions; no file has been written
C19_Witness ==
    /\ call.op = "save"
    /\ ~call.is_open
    /\ call.ret = "false"
    /\ Len(tagger_list) = 2
    /\ Len(tagexp_list) = 2
    /\ disk = NoFile

----------------------------------------------------------------------------
(* Claims about the stored tags, checked under Spec *)

OutputTags(o) == o.required_tags \cup o.banned_tags

\* every tag stored in the pipeline
StoredTags ==
    UNION {OutputTags(tagger_list[i].true_tags) \cup OutputTags(tagger_list[i].false_tags) :
             i \in DOMAIN tagger_list}
    \cup Froms(tagexp_list)
    \cup UNION {tagexp_list[i].to : i \in DOMAIN tagexp_list}

\* C20: in every reachable state no tag stored in a tag set of the pipeline
\* (tagger required / banned tags, expansion `from` keys and `to` sets) contains
\* a space character.
C20_NoSpaceInStoredTags ==
    \A tag \in StoredTags : ~contains_space(tag)

----------------------------------------------------------------------------
(* Tag text representation: joinTags / splitTags.  A text is a sequence of  *)
(* characters; a tag of these definitions is a text.                        *)

MaxTagLen == 2         \* longest tag given to joinTags
MaxTextLen == 4        \* longest text given to splitTags

Space == " "
Chars == {"a", "b", Space}

\* byte order of the characters
CharOrd(c) == CASE c = Space -> 0 [] c = "a" -> 1 [] c = "b" -> 2

\* std::string operator< : lexicographic, a proper prefix is smaller
RECURSIVE str_less(_, _)
str_less(s, t) ==
    IF t = <<>> THEN FALSE
    ELSE IF s = <<>> THEN TRUE
    ELSE IF Head(s) # Head(t) THEN CharOrd(Head(s)) < CharOrd(Head(t))
    ELSE str_less(Tail(s), Tail(t))

\* the elements of a set of texts in ascending order
RECURSIVE sort(_)
sort(S) ==
    IF S = {} THEN <<>>
    ELSE LET least == CHOOSE s \in S : \A t \in S \ {s} : str_less(s, t)
         IN <<least>> \o sort(S \ {least})

\* the texts of a sequence, joined with one separator between neighbours
RECURSIVE join(_, _)
join(list, sep) ==
    IF list = <<>> THEN <<>>
    ELSE IF Len(list) = 1 THEN list[1]
    ELSE list[1] \o sep \o join(Tail(list), sep)

\* joinTags(tags, sorted = true)
joinTags_unsorted(tags) ==
    LET greatest(S) == CHOOSE s \in S : \A t \in S \ {s} : str_less(t, s)
        rest == tags \ {greatest(tags)}
    IN IF tags = {} THEN <<>>
       ELSE join(<<greatest(tags)>> \o sort(rest), <<Space>>)

joinTags(tags) == join(sort(tags), <<Space>>)

\* the whitespace-separated tokens of a text, left to right; `cur` is the token
\* being read
RECURSIVE tokens(_, _)
tokens(str, cur) ==
    IF str = <<>> THEN (IF cur = <<>> THEN <<>> ELSE <<cur>>)
    ELSE IF Head(str) = Space
         THEN (IF cur = <<>> THEN <<>> ELSE <<cur>>) \o tokens(Tail(str), <<>>)
         ELSE tokens(Tail(str), Append(cur, Head(str)))

\* splitTags(str) : the set of the tokens
splitTags(str) == Range(tokens(str, <<>>))

\* the tags and texts the functions are applied to
TagTexts == UNION {[1..n -> Chars] : n \in 1..MaxTagLen}
Texts == SeqsUpTo(Chars, MaxTextLen)
\* the tag sets of at most three tags
TagSets == {{}} \cup {{s, t, u} : s, t, u \in TagTexts}

\* a tag set or a text, before the function is applied to it
TagsInputs ==
    {[op |-> "tags", tags |-> tags] : tags \in TagSets}
    \cup {[op |-> "text", str |-> str] : str \in Texts}

\* the text shown by a tags input: joinTags of the current set
JoinTags ==
    /\ call.op = "tags"
    /\ call' = [op |-> "joinTags", tags |-> call.tags, ret |-> joinTags(call.tags)]
    /\ UNCHANGED <<tagger_list, tagexp_list, anim_dict, disk, gen, rule_info, status_vars>>

\* the Enter key on a tags input: the text entered is parsed by splitTags
SplitTags ==
    /\ call.op = "text"
    /\ call' = [op |-> "splitTags", str |-> call.str, ret |-> splitTags(call.str)]
    /\ UNCHANGED <<tagger_list, tagexp_list, anim_dict, disk, gen, rule_info, status_vars>>

InitTags ==
    /\ tagger_list = <<>>
    /\ tagexp_list = <<>>
    /\ anim_dict = [edid \in {} |-> {}]
    /\ disk = NoFile
    /\ gen = DefaultEngine
    /\ rule_info = NoRuleInfo
    /\ InitStatus
    /\ call \in TagsInputs

NextTags == JoinTags \/ SplitTags

SpecTags == InitTags /\ [][NextTags]_vars

----------------------------------------------------------------------------
(* Claims about the tag text representation, checked under SpecTags *)

no_whitespace(tag) == tag # <<>> /\ \A i \in DOMAIN tag : tag[i] # Space

SortedSingleSpaced(str, tags) ==
    \E list \in [1..Cardinality(tags) -> tags] :
        /\ Range(list) = tags
        /\ \A i \in 1..(Len(list) - 1) : str_less(list[i], list[i + 1])
        /\ str = join(list, <<Space>>)

\* C21: for every tag set whose tokens are non-empty and contain no whitespace,
\* splitTags(joinTags(S)) = S and joinTags(S) is the tokens in ascending order
\* with exactly one space between neighbours; splitTags of any text is the set
\* of its tokens, so a token repeated in the text appears once.
C21_JoinSplitRoundTrip ==
    /\ (call.op = "joinTags" /\ \A tag \in call.tags : no_whitespace(tag))
         => /\ splitTags(call.ret) = call.tags
            /\ SortedSingleSpaced(call.ret, call.tags)
    /\ call.op = "splitTags"
         => /\ \A tag \in call.ret : no_whitespace(tag)
            /\ \A tag \in TagTexts :
                 no_whitespace(tag) =>
                    (tag \in call.ret <=>
                       \E i, j \in 1..(Len(call.str) + 1) :
                          /\ i < j
                          /\ SubSeq(call.str, i, j - 1) = tag
                          /\ (i = 1 \/ call.str[i - 1] = Space)
                          /\ (j = Len(call.str) + 1 \/ call.str[j] = Space))

\* joinTags was applied to three two-letter tags given out of order, and
\* splitTags to a text that repeats a token
C21_Witness ==
    \/ /\ call.op = "joinTags"
       /\ call.tags = {<<"b", "a">>, <<"a", "b">>, <<"a", "a">>}
       /\ call.ret = <<"a", "a", Space, "a", "b", Space, "b", "a">>
    \/ /\ call.op = "splitTags"
       /\ call.str = <<"a", Space, "a">>
       /\ call.ret = {<<"a">>}

----------------------------------------------------------------------------
(* Claims about the single-actor rules, checked under SpecActor *)

SingleActorCall == call.op \in {"check", "operator()"}

\* the actor check_attacker selects
SelectedActor == IF call.params.check_attacker THEN call.attacker ELSE call.victim

\* what each rule's hint says of one actor
HintHolds(rule, actor) ==
    CASE rule = "Animation Playable" ->
            actor["loaded"] /\ ~actor["dead"] /\ ~actor["paired"] /\ ~actor["mounted"]
      [] rule = "Bleedout" -> actor["bleedout"]
      [] rule = "Ragdoll" -> actor["ragdoll"]
      [] rule = "Protected" -> actor["protected"]
      [] rule = "Essential" -> actor["essential"]

\* C22: every single-actor rule returns a defined boolean that depends only on
\* the victim when check_attacker is false and only on the attacker when it is
\* true: the result is what the rule's hint says of the selected actor.
C22_SingleActorRuleChecksSelectedActor ==
    SingleActorCall =>
        /\ call.ret \in BOOLEAN
        /\ call.ret = HintHolds(call.rule, SelectedActor)

\* the part of C22 that holds: Rule<SingleActorRuleParams>::check of rule.h
\* returns what the hint says of the selected actor
C22_RuleHCheck ==
    call.op = "check" => call.ret = HintHolds(call.rule, SelectedActor)

----------------------------------------------------------------------------
(* isLastHostileInRange (re.cpp) over the loaded actors of the process      *)
(* lists.  Distances are measured from the attacker.                        *)

MaxHighActors == 2     \* longest highActorHandles

Dists == {0, 1}
Ranges == {1, 2}

\* an entry of highActorHandles: an empty handle, the attacker, the victim, or
\* another actor with its health, its distance and whether it is hostile to the
\* attacker
OtherActors == [is : {"other"}, health : {0, 1}, dist : Dists, hostile : BOOLEAN]
Handle(is) == [is |-> is, health |-> 1, dist |-> 0, hostile |-> FALSE]
Handles == {Handle("null"), Handle("attacker"), Handle("victim")} \cup OtherActors

\* PlayerCharacter::GetSingleton(): none, or the player with its distance and
\* whether the attacker is hostile to it
NoPlayer == [is |-> "none", dist |-> 0, target |-> FALSE]
Players == {NoPlayer} \cup [is : {"player"}, dist : Dists, target : BOOLEAN]

Worlds ==
    [op : {"world"},
     process_lists : BOOLEAN,
     highActorHandles : SeqsUpTo(Handles, MaxHighActors),
     IsPlayerRef : {"attacker", "victim", "neither"},
     player : Players,
     range : Ranges]

\* the loop over highActorHandles from entry i: TRUE when a living other actor
\* within range is hostile to the attacker
RECURSIVE hostileInRange(_, _, _)
hostileInRange(handles, i, range) ==
    IF i > Len(handles) THEN FALSE
    ELSE LET actor == handles[i]
         IN IF actor.is = "null" THEN hostileInRange(handles, i + 1, range)
            ELSE IF actor.is \in {"attacker", "victim"}
                 THEN hostileInRange(handles, i + 1, range)
            ELSE IF actor.health <= 0 THEN hostileInRange(handles, i + 1, range)
            ELSE IF actor.dist < range /\ actor.hostile THEN TRUE
            ELSE hostileInRange(handles, i + 1, range)

\* the check of the player after the loop
playerHostileInRange(w) ==
    /\ w.IsPlayerRef = "neither"
    /\ w.player # NoPlayer
    /\ w.player.dist < w.range
    /\ w.player.target

\* numberHighActors is the length of highActorHandles
isLastHostileInRange(w) ==
    IF ~w.process_lists THEN FALSE
    ELSE IF Len(w.highActorHandles) = 0 THEN TRUE
    ELSE IF hostileInRange(w.highActorHandles, 1, w.range) THEN FALSE
    ELSE IF playerHostileInRange(w) THEN FALSE
    ELSE TRUE

IsLastHostileInRange ==
    /\ call.op = "world"
    /\ call' = [call EXCEPT !.op = "isLastHostileInRange"] @@
               [ret |-> isLastHostileInRange(call)]
    /\ UNCHANGED <<tagger_list, tagexp_list, anim_dict, disk, gen, rule_info, status_vars>>

InitHostile ==
    /\ tagger_list = <<>>
    /\ tagexp_list = <<>>
    /\ anim_dict = [edid \in {} |-> {}]
    /\ disk = NoFile
    /\ gen = DefaultEngine
    /\ rule_info = NoRuleInfo
    /\ InitStatus
    /\ call \in Worlds

NextHostile == IsLastHostileInRange

SpecHostile == InitHostile /\ [][NextHostile]_vars

----------------------------------------------------------------------------
(* Claims about isLastHostileInRange, checked under SpecHostile *)

\* a living loaded actor other than attacker and victim is within range and
\* hostile
OtherHostileInRange ==
    \E i \in DOMAIN call.highActorHandles :
        LET actor == call.highActorHandles[i]
        IN /\ actor \in OtherActors
           /\ actor.health > 0
           /\ actor.dist < call.range
           /\ actor.hostile

\* neither actor is the player, and the player is in range and a hostility target
PlayerHostileInRange ==
    /\ call.IsPlayerRef = "neither"
    /\ call.player.is = "player"
    /\ call.player.dist < call.range
    /\ call.player.target

\* C23: isLastHostileInRange returns true only if no living loaded actor other
\* than attacker and victim is within range and hostile and, when neither actor
\* is the player, the player is not both in range and a hostility target; the
\* player check applies in every case, the empty loaded-actor list included.
C23_TrueOnlyIfNoHostileLeft ==
    (call.op = "isLastHostileInRange" /\ call.ret)
        => ~OtherHostileInRange /\ ~PlayerHostileInRange

\* the part of C23 that holds: the same with at least one loaded actor
C23_TrueOnlyIfNoHostileLeft_NonEmpty ==
    (call.op = "isLastHostileInRange" /\ call.ret /\ Len(call.highActorHandles) > 0)
        => ~OtherHostileInRange /\ ~PlayerHostileInRange

----------------------------------------------------------------------------
(* The expansion table of the menu (menu.cpp, drawAnimationMenu).  There    *)
(* tagexp_list is a StrMap from the `from` key to the `to` set; it is held   *)
(* as the sequence of its entries in iteration order.                       *)

MenuKeys == {"", "a", "from"}

\* StrMap::contains
contains(map, key) == \E i \in DOMAIN map : map[i].from = key

\* StrMap::try_emplace: nothing when the key is present
try_emplace(map, key, value) ==
    IF contains(map, key) THEN map ELSE Append(map, TagExpansion(key, value))

\* StrMap::erase(key)
erase(map, key) == SelectSeq(map, LAMBDA e : e.from # key)

\* StrMap::extract(key): the node handle taken out (empty when the key is absent) and
\* the map without it
extract(map, key) ==
    [nh |-> SelectSeq(map, LAMBDA e : e.from = key), map |-> erase(map, key)]

\* StrMap::insert(node): nothing for an empty node or a key that is present
insert(map, nh) ==
    IF nh = <<>> \/ contains(map, nh[1].from) THEN map ELSE map \o nh

\* the block after the rows: the edit recorded in swap_from / swap_to is applied
applyEdit(map, swap_from, swap_to) ==
    IF swap_from # "" /\ ~contains(map, swap_to)
    THEN IF swap_to = "" THEN erase(map, swap_from)
         ELSE LET ex == extract(map, swap_from)
                  nh == IF ex.nh = <<>> THEN <<>>
                          ELSE <<[ex.nh[1] EXCEPT !.from = swap_to]>>
              IN insert(ex.map, nh)
    ELSE map

\* the Add button
AddExpansion ==
    /\ tagexp_list' = try_emplace(tagexp_list, "from", {"to"})
    /\ call' = [op |-> "add", before |-> tagexp_list]
    /\ UNCHANGED <<tagger_list, anim_dict, disk, gen, rule_info, status_vars>>

\* a frame in which Enter is pressed on the `from` input of one row: the loop
\* records swap_from = from and swap_to = the text entered
EditFrom ==
    /\ \E i \in DOMAIN tagexp_list, temp_from \in MenuKeys :
         LET swap_from == tagexp_list[i].from
             swap_to == temp_from
         IN /\ tagexp_list' = applyEdit(tagexp_list, swap_from, swap_to)
            /\ call' = [op |-> "editFrom", swap_from |-> swap_from,
                        swap_to |-> swap_to, before |-> tagexp_list]
    /\ UNCHANGED <<tagger_list, anim_dict, disk, gen, rule_info, status_vars>>

\* the tables a configuration file can leave in the map: distinct keys, any of
\* them possibly the empty string
MenuTables ==
    {map \in SeqsUpTo([from : MenuKeys, to : {{"to"}, {"x"}}], MaxExps) :
        \A i, j \in DOMAIN map : map[i].from = map[j].from => i = j}

InitMenu ==
    /\ tagger_list = <<>>
    /\ tagexp_list \in MenuTables
    /\ anim_dict = [edid \in {} |-> {}]
    /\ disk = NoFile
    /\ call = NoCall
    /\ gen = DefaultEngine
    /\ rule_info = NoRuleInfo
    /\ InitStatus

NextMenu == AddExpansion \/ EditFrom

SpecMenu == InitMenu /\ [][NextMenu]_vars

----------------------------------------------------------------------------
(* Claims about the expansion table of the menu, checked under SpecMenu *)

\* the table as a set of (from, to) pairs
Entries(map) == {<<map[i].from, map[i].to>> : i \in DOMAIN map}

UniqueFroms(map) == \A i, j \in DOMAIN map : map[i].from = map[j].from => i = j

\* the entries of the table keyed `key`
Keyed(map, key) == {e \in Entries(map) : e[1] = key}

\* what the claim says an edit of swap_from to swap_to makes of the table
EditedAsClaimed(before, swap_from, swap_to) ==
    IF swap_to \in Froms(before) THEN Entries(before)
    ELSE IF swap_to = "" THEN Entries(before) \ Keyed(before, swap_from)
    ELSE (Entries(before) \ Keyed(before, swap_from))
            \cup {<<swap_to, e[2]>> : e \in Keyed(before, swap_from)}

\* C24: an edit of an expansion's `from` key changes nothing when the new key is
\* already in the table, deletes the expansion when the new key is empty, and
\* otherwise re-keys it with its `to` set unchanged; no other expansion changes,
\* and after any sequence of Add and rename edits no two expansions share a
\* `from`.
C24_RenameEdits ==
    /\ UniqueFroms(tagexp_list)
    /\ call.op = "editFrom"
         => Entries(tagexp_list) = EditedAsClaimed(call.before, call.swap_from, call.swap_to)
    /\ call.op = "add"
         => \A e \in Entries(call.before) : e \in Entries(tagexp_list)

\* the part of C24 that holds: the same for an expansion whose `from` is not
\* the empty string
C24_RenameEdits_NonEmptyFrom ==
    /\ UniqueFroms(tagexp_list)
    /\ (call.op = "editFrom" /\ call.swap_from # "")
         => Entries(tagexp_list) = EditedAsClaimed(call.before, call.swap_from, call.swap_to)
    /\ call.op = "add"
         => \A e \in Entries(call.before) : e \in Entries(tagexp_list)

----------------------------------------------------------------------------
(* Claims about the tag tables of a tagger record, checked under Spec *)

\* a tagger record whose fields pass Tagger::fromToml up to the tag tables
ReachesTagTables(v) ==
    /\ as_table(v)
    /\ as_string(node(v.t, "rule")) /\ as_table(node(v.t, "params"))
    /\ as_string(node(v.t, "comment"))
    /\ as_boolean(node(v.t, "enable_true")) /\ as_boolean(node(v.t, "enable_false"))
    /\ as_table(node(v.t, "true_tags")) /\ as_table(node(v.t, "false_tags"))
    /\ v.t["rule"].s \in RuleNames
    /\ checkParamsValidity(v.t["rule"].s, v.t["params"].t)

\* a tag table in which `key` is missing or is not an array
LacksArray(tbl, key) == ~as_array(node(tbl, key))

\* one of the record's two tag tables lacks the array `key`
RecordLacks(v, key) ==
    /\ ReachesTagTables(v)
    /\ LacksArray(v.t["true_tags"].t, key) \/ LacksArray(v.t["false_tags"].t, key)

TaggerEntries(doc) ==
    IF doc = ParseError \/ ~as_array(node(doc, "taggers")) THEN {}
    ELSE Range(doc["taggers"].a)

\* C25: TaggerOutput::fromToml rejects with a runtime error every table in which
\* req_tags or ban_tags is missing or not an array; loadFile skips a record with
\* such a table, keeps the well-formed records and returns false, and fails in
\* no other way.
C25_MissingTagArrayIsRejected ==
    call.op = "load" =>
        \A v \in TaggerEntries(call.doc) :
            (RecordLacks(v, "req_tags") \/ RecordLacks(v, "ban_tags")) =>
                /\ Tagger_fromToml(v.t).status = "runtime_error"
                /\ call.ret = "false"
                /\ LastN(tagger_list, Len(ParsedTaggers(call.doc))) = ParsedTaggers(call.doc)

\* the part of C25 that holds: a record with a tag table that lacks req_tags is
\* rejected with a runtime error and skipped, and loadFile returns false
C25_MissingReqTagsIsRejected ==
    call.op = "load" =>
        \A v \in TaggerEntries(call.doc) :
            RecordLacks(v, "req_tags") =>
                /\ Tagger_fromToml(v.t).status = "runtime_error"
                /\ call.ret = "false"
                /\ LastN(tagger_list, Len(ParsedTaggers(call.doc))) = ParsedTaggers(call.doc)

----------------------------------------------------------------------------
(* Claims about a file that cannot be parsed, checked under Spec *)

\* C27: when the file cannot be parsed, loadFile(path, append = true) leaves the
\* Tagger list and the expansion list as they were, and loadFile(path,
\* append = false) leaves both empty: the clear happens before the parse, so a
\* failed non-append load destroys the configuration loaded before.
C27_ParseFailureAfterClear ==
    [][(call'.op = "load" /\ call'.doc = ParseError) =>
          IF call'.append
          THEN tagger_list' = tagger_list /\ tagexp_list' = tagexp_list
          ELSE tagger_list' = <<>> /\ tagexp_list' = <<>>]_vars

\* a non-append load of an unparsable file on a pipeline that held two taggers
\* and an expansion returned false and left nothing
C27_Witness ==
    /\ call.op = "load"
    /\ call.doc = ParseError
    /\ ~call.append
    /\ call.ret = "false"
    /\ call.had = <<2, 1>>
    /\ tagger_list = <<>>
    /\ tagexp_list = <<>>

----------------------------------------------------------------------------
(* Claims about the records loadFile adds, checked under Spec *)

\* the Taggers the recorded load added: what follows the list it started from
AddedTaggers ==
    LET base == IF call.append THEN call.had[1] ELSE 0
    IN SubSeq(tagger_list, base + 1, Len(tagger_list))

\* C28: each tagger record is loaded atomically: a record that fails at any step
\* of Tagger::fromToml adds no element, so after loadFile the Taggers added are
\* the well-formed records of the file, as many and in file order.
C28_AddedAreTheWellFormedRecords ==
    call.op = "load" => AddedTaggers = ParsedTaggers(call.doc)

\* the part of C28 that holds: the same for a load that returned true or false
C28_AddedAreTheWellFormedRecords_Returned ==
    Loaded => AddedTaggers = ParsedTaggers(call.doc)

----------------------------------------------------------------------------
(* The status line (menu.cpp): setStatusMessage from the game thread        *)
(* (playPairedIdle) and from the menu thread, and the draw of the line.     *)

PlayedMsgs == {"Last played by this mod: e1", "Last played by this mod: e2"}
SavedMsgs == {"Config saved", "Something went wrong while saving"}
StatusMsgs == {VersionBanner} \cup PlayedMsgs \cup SavedMsgs

Threads == {"game", "menu"}

\* playPairedIdle on the game thread calls setStatusMessage
PlayPairedIdle ==
    /\ pc["game"].at = "idle"
    /\ \E msg \in PlayedMsgs :
         pc' = [pc EXCEPT !["game"] = [at |-> "lock", msg |-> msg, raced |-> FALSE]]
    /\ UNCHANGED <<tagger_list, tagexp_list, anim_dict, disk, call, gen, rule_info,
                   status_msg, status_msg_mutex>>

\* a Save button of the menu calls setStatusMessage
SaveButton ==
    /\ pc["menu"].at = "draw"
    /\ \E msg \in SavedMsgs :
         pc' = [pc EXCEPT !["menu"] = [at |-> "lock", msg |-> msg, raced |-> FALSE]]
    /\ UNCHANGED <<tagger_list, tagexp_list, anim_dict, disk, call, gen, rule_info,
                   status_msg, status_msg_mutex>>

\* setStatusMessage: std::scoped_lock l(status_msg_mutex); the assignment begins
Lock(t) ==
    /\ pc[t].at = "lock"
    /\ status_msg_mutex = "free"
    /\ status_msg_mutex' = t
    /\ pc' = [pc EXCEPT ![t].at = "write",
                        !["menu"].raced = @ \/ (t = "game" /\ pc["menu"].at = "read")]
    /\ UNCHANGED <<tagger_list, tagexp_list, anim_dict, disk, call, gen, rule_info,
                   status_msg>>

\* setStatusMessage: status_msg = msg; the assignment ends
Write(t) ==
    /\ pc[t].at = "write"
    /\ status_msg' = pc[t].msg
    /\ pc' = [pc EXCEPT ![t].at = "unlock"]
    /\ UNCHANGED <<tagger_list, tagexp_list, anim_dict, disk, call, gen, rule_info,
                   status_msg_mutex>>

\* setStatusMessage returns: the scoped_lock releases the mutex
Unlock(t) ==
    /\ pc[t].at = "unlock"
    /\ status_msg_mutex' = "free"
    /\ pc' = [pc EXCEPT ![t] = Idle(IF t = "game" THEN "idle" ELSE "draw")]
    /\ UNCHANGED <<tagger_list, tagexp_list, anim_dict, disk, call, gen, rule_info,
                   status_msg>>

SetStatusMessage == \E t \in Threads : Lock(t) \/ Write(t) \/ Unlock(t)

\* the draw reaches ImGui::TextDisabled(status_msg.c_str()): the read begins,
\* without the mutex
BeginTextDisabled ==
    /\ pc["menu"].at = "draw"
    /\ pc' = [pc EXCEPT !["menu"] = [at |-> "read", msg |-> "",
                                     raced |-> pc["game"].at = "write"]]
    /\ UNCHANGED <<tagger_list, tagexp_list, anim_dict, disk, call, gen, rule_info,
                   status_msg, status_msg_mutex>>

\* the read ends: the line shows status_msg, or anything when a write went on
\* during the read
EndTextDisabled ==
    /\ pc["menu"].at = "read"
    /\ \E text \in (IF pc["menu"].raced THEN StatusMsgs \cup {"garbage"} ELSE {status_msg}) :
         call' = [op |-> "TextDisabled", text |-> text, raced |-> pc["menu"].raced]
    /\ pc' = [pc EXCEPT !["menu"] = Idle("draw")]
    /\ UNCHANGED <<tagger_list, tagexp_list, anim_dict, disk, gen, rule_info,
                   status_msg, status_msg_mutex>>

NextStatus ==
    \/ PlayPairedIdle
    \/ SaveButton
    \/ SetStatusMessage
    \/ BeginTextDisabled
    \/ EndTextDisabled

SpecStatus == Init /\ [][NextStatus]_vars

----------------------------------------------------------------------------
(* Claims about the status line, checked under SpecStatus *)

Accessing(t) == pc[t].at \in {"write", "read"}

\* C29: every access to status_msg is made holding status_msg_mutex, so no read
\* of the menu thread overlaps a write made by setStatusMessage from
\* playPairedIdle.
C29_StatusMsgAccessHoldsMutex ==
    /\ \A t \in Threads : Accessing(t) => status_msg_mutex = t
    /\ ~(pc["menu"].at = "read" /\ pc["game"].at = "write")
    /\ call.op = "TextDisabled" => ~call.raced

\* the part of C29 that holds: every write is made holding the mutex, and no two
\* writes overlap
C29_WritesHoldMutex ==
    /\ \A t \in Threads : pc[t].at = "write" => status_msg_mutex = t
    /\ ~(pc["menu"].at = "write" /\ pc["game"].at = "write")

----------------------------------------------------------------------------
(* Claims about the frame of pickAnimation, checked under SpecPick *)

\* C30: pickAnimation is a pure query on the configuration and the pool: after
\* any call the Tagger list, the expansion list with every expansion's `to` set
\* and every pool entry's tag set are what they were, whether or not an entry
\* was selected.
C30_PickAnimationIsPure ==
    [][call'.op = "pick" =>
          /\ tagger_list' = tagger_list
          /\ tagexp_list' = tagexp_list
          /\ anim_dict' = anim_dict]_vars

\* a call selected an entry one of whose original tags an expansion with a
\* non-empty `to` set expands, under a pipeline with a tagger
C30_Witness ==
    /\ call.op = "pick"
    /\ call.result # nullptr
    /\ tagger_list # <<>>
    /\ \E i \in DOMAIN tagexp_list :
          /\ tagexp_list[i].from \in anim_dict[call.result]
          /\ tagexp_list[i].to # {}
          /\ ~(tagexp_list[i].to \subseteq anim_dict[call.result])

====
